---- MODULE Spec2Model ----
(***************************************************************************)
(* CedarSim discrete-event inventory engine                                *)
(* (simulation_development/core_models.py).                                *)
(*                                                                         *)
(* The state is the set of SKU objects (one per Location that stocks the   *)
(* item), the DiscreteEventSimulation engine (registry keyed by SKU id,    *)
(* heapq event queue, clock, statistics) and the position of the driver    *)
(* script: "setup" (objects are being configured and events seeded),       *)
(* "run" (inside the while loop of run_simulation) and "done".             *)
(* The object heap `sku' also holds the Location objects, which observe    *)
(* the SKUs added to them; the SimulationManager is its `locations' dict   *)
(* (manager_locations) and its sku_registry.                               *)
(* Quantities are integers; time is counted in whole lead-time units.      *)
(***************************************************************************)
EXTENDS Integers, Sequences, FiniteSets, TLC

VARIABLES sku, skus, event_queue, current_time, simulation_stats,
          end_time, pc, last,
          manager_locations, sku_registry, wirings, raised, query

vars == <<sku, skus, event_queue, current_time, simulation_stats,
          end_time, pc, last,
          manager_locations, sku_registry, wirings, raised, query>>

\* The engine, and the SimulationManager with its call bookkeeping.
engine_vars == <<skus, event_queue, current_time, simulation_stats,
                 end_time, pc, last>>

\* `query' is the latest reporting call on a Location and what it returned.
manager_vars == <<manager_locations, sku_registry, wirings, raised, query>>

(***************************************************************************)
(* Bounds of the model.                                                    *)
(***************************************************************************)
MaxSeeds == 3

MaxWirings == 2

MaxRegistered == 3

(***************************************************************************)
(* The objects: one logical item stocked in the ED PAR location and in the *)
(* Perpetual warehouse, as in the module's example.                         *)
(***************************************************************************)
None == "None"

Instances == {"par", "perp"}

SkuIds == {"SKU_001"}

\* The objects of the topology example (a second PAR location) and, for
\* the registration checks, an item stocked in ED only and a second object
\* created for SKU_001 in ED.
TopologyInstances == Instances \cup {"surgery", "other", "par_dup"}

TopologySkuIds == SkuIds \cup {"SKU_002"}

LocationIds == {"PERPETUAL", "ED", "Surgery"}

resource_id ==
    [i \in TopologyInstances |-> IF i = "other" THEN "SKU_002" ELSE "SKU_001"]

location_id ==
    [i \in TopologyInstances |->
        CASE i = "perp" -> "PERPETUAL"
          [] i = "surgery" -> "Surgery"
          [] OTHER -> "ED"]

demand_rate ==
    [i \in TopologyInstances |->
        CASE i = "perp" -> 0
          [] i = "other" -> 4
          [] OTHER -> 10]

TargetLevels == [par : {0, 50}, perp : {100}]

LeadTimes == [par : {1}, perp : {1}]

InitialLevels == [par |-> {5, 25}, perp |-> {3, 75}]

EndTimes == {1, 3}

SeedEvents ==
    [kind : {"Demand"}, sku_id : SkuIds, quantity : {5, 10}, time : {0, 1},
     meta : {"ED"}]
    \cup [kind : {"Replenishment"}, sku_id : SkuIds, quantity : {-1, 5},
          time : {0}, meta : {"ED"}]
    \cup [kind : {"Delivery"}, sku_id : SkuIds, quantity : {5}, time : {1},
          meta : {"external_supplier"}]

DemandSeeds == {e \in SeedEvents : e.kind = "Demand"}

NoEvent == [kind |-> None, sku_id |-> None, quantity |-> 0, time |-> 0,
            meta |-> None]

Max(a, b) == IF a >= b THEN a ELSE b

RECURSIVE SumQuantity(_)
SumQuantity(seq) ==
    IF seq = <<>> THEN 0 ELSE Head(seq).quantity + SumQuantity(Tail(seq))

(***************************************************************************)
(* SKU                                                                     *)
(***************************************************************************)
NewSKU(target, lead) ==
    [target_level |-> target,
     lead_time_weeks |-> lead,
     connected_par_skus |-> <<>>,
     connected_perpetual_sku |-> None,
     observers |-> <<>>,
     current_inventory_level |-> 0,
     pending_shipments |-> <<>>,
     stockout_amount |-> 0,
     total_stockouts |-> 0,
     total_emergency_transfers |-> 0]

get_current_level(s, i) == s[i].current_inventory_level

(***************************************************************************)
(* Location: its skus dict and the level cached in state.current_level.    *)
(***************************************************************************)
NewLocation ==
    [skus |-> [id \in TopologySkuIds |-> None], current_level |-> 0]

\* sum over the values of the dict (one entry per id).
RECURSIVE SumDictLevels(_, _, _)
SumDictLevels(s, l, ids) ==
    IF ids = {} THEN 0
    ELSE LET id == CHOOSE x \in ids : TRUE
         IN  get_current_level(s, s[l].skus[id])
                 + SumDictLevels(s, l, ids \ {id})

Location_get_current_level(s, l) ==
    SumDictLevels(s, l, {id \in TopologySkuIds : s[l].skus[id] # None})

on_inventory_change(s, l) ==
    [s EXCEPT ![l].current_level = Location_get_current_level(s, l)]

Location_add_sku(s, l, i) ==
    [s EXCEPT ![l].skus[resource_id[i]] = i,
              ![i].observers = Append(@, l)]

(***************************************************************************)
(* The reporting methods of Location.  A returned value is a dict, a       *)
(* number num/den, or the square root of one; a division by zero raises.   *)
(***************************************************************************)
Number(n) ==
    [error |-> FALSE, dict |-> <<>>, num |-> n, den |-> 1, root |-> FALSE]

Dict(f) ==
    [error |-> FALSE, dict |-> f, num |-> 0, den |-> 1, root |-> FALSE]

ZeroDivisionError ==
    [error |-> TRUE, dict |-> <<>>, num |-> 0, den |-> 1, root |-> FALSE]

Quotient(num, den) ==
    IF den = 0 THEN ZeroDivisionError
    ELSE [error |-> FALSE, dict |-> <<>>, num |-> num, den |-> den,
          root |-> FALSE]

NoQuery == [location |-> None, name |-> None, result |-> Number(0)]

\* The keys of the skus dict.
Keys(s, l) == {id \in TopologySkuIds : s[l].skus[id] # None}

RECURSIVE Sum(_, _)
Sum(f, keys) ==
    IF keys = {} THEN 0
    ELSE LET k == CHOOSE x \in keys : TRUE
         IN  f[k] + Sum(f, keys \ {k})

get_inventory_levels(s, l) ==
    Dict([id \in Keys(s, l) |-> get_current_level(s, s[l].skus[id])])

get_demand_summary(s, l) ==
    Dict([id \in Keys(s, l) |-> demand_rate[s[l].skus[id]]])

get_stockout_summary(s, l) ==
    Dict([id \in Keys(s, l) |-> s[s[l].skus[id]].stockout_amount])

get_replenishment_summary(s, l) ==
    Dict([id \in Keys(s, l) |-> Len(s[s[l].skus[id]].pending_shipments)])

get_total_inventory(s, l) ==
    Number(Sum([id \in Keys(s, l) |->
                   get_current_level(s, s[l].skus[id])], Keys(s, l)))

get_sku_count(s, l) == Number(Cardinality(Keys(s, l)))

\* Divides without the test for an empty dict.
get_stockout_rate_unguarded(s, l) ==
    LET stockout_count ==
            Cardinality({id \in Keys(s, l) :
                            s[s[l].skus[id]].stockout_amount > 0})
    IN  Quotient(stockout_count * 100, Cardinality(Keys(s, l)))

get_stockout_rate(s, l) ==
    IF Keys(s, l) = {} THEN Number(0)
    ELSE LET stockout_count ==
                 Cardinality({id \in Keys(s, l) :
                                 s[s[l].skus[id]].stockout_amount > 0})
         IN  Quotient(stockout_count * 100, Cardinality(Keys(s, l)))

get_average_lead_time(s, l) ==
    IF Keys(s, l) = {} THEN Number(0)
    ELSE LET total_lead_time ==
                 Sum([id \in Keys(s, l) |->
                         s[s[l].skus[id]].lead_time_weeks], Keys(s, l))
         IN  Quotient(total_lead_time, Cardinality(Keys(s, l)))

\* With n rates of sum t, the variance sum((rate - t/n)^2)/n is
\* sum((n*rate - t)^2) / n^3; the method returns its square root.
get_demand_variance(s, l) ==
    IF Keys(s, l) = {} THEN Number(0)
    ELSE LET demand_rates == [id \in Keys(s, l) |->
                                 demand_rate[s[l].skus[id]]]
             n == Cardinality(Keys(s, l))
             t == Sum(demand_rates, Keys(s, l))
             squares == [id \in Keys(s, l) |->
                            (n * demand_rates[id] - t)
                                * (n * demand_rates[id] - t)]
         IN  [Quotient(Sum(squares, Keys(s, l)), n * n * n)
                  EXCEPT !.root = TRUE]

QueryNames ==
    {"get_inventory_levels", "get_demand_summary", "get_stockout_summary",
     "get_replenishment_summary", "get_total_inventory", "get_sku_count",
     "get_stockout_rate", "get_average_lead_time", "get_demand_variance"}

QueryResult(s, l, name) ==
    CASE name = "get_inventory_levels" -> get_inventory_levels(s, l)
      [] name = "get_demand_summary" -> get_demand_summary(s, l)
      [] name = "get_stockout_summary" -> get_stockout_summary(s, l)
      [] name = "get_replenishment_summary" ->
             get_replenishment_summary(s, l)
      [] name = "get_total_inventory" -> get_total_inventory(s, l)
      [] name = "get_sku_count" -> get_sku_count(s, l)
      [] name = "get_stockout_rate" -> get_stockout_rate(s, l)
      [] name = "get_average_lead_time" -> get_average_lead_time(s, l)
      [] OTHER -> get_demand_variance(s, l)

\* SKU.record_stockout
record_stockout(s, i, amount) ==
    [s EXCEPT ![i].stockout_amount = amount,
              ![i].total_stockouts = @ + amount]

RECURSIVE notify_all(_, _)
notify_all(s, observers) ==
    IF observers = <<>> THEN s
    ELSE notify_all(on_inventory_change(s, Head(observers)), Tail(observers))

notify_observers_none(s, i) == s

notify_observers(s, i) == notify_all(s, s[i].observers)

set_inventory_level_unclamped(s, i, new_level) ==
    notify_observers([s EXCEPT ![i].current_inventory_level = new_level], i)

set_inventory_level(s, i, new_level) ==
    notify_observers(
        [s EXCEPT ![i].current_inventory_level = Max(0, new_level)], i)

add_emergency_connection(s, p, par_sku) ==
    [s EXCEPT ![p].connected_par_skus = Append(@, par_sku)]

set_connected_perpetual_sku(s, i, perpetual_sku) ==
    [s EXCEPT ![i].connected_perpetual_sku = perpetual_sku]

\* Grants no more than the level held.
allocate_emergency_supply_capped(s, p, demand) ==
    IF s[p].connected_par_skus = <<>>
    THEN [s |-> s, allocated |-> 0]
    ELSE LET available == get_current_level(s, p)
             allocated == IF available >= demand THEN demand ELSE available
             s1 == set_inventory_level(s, p, available - allocated)
             s2 == IF available >= demand
                   THEN s1
                   ELSE [s1 EXCEPT ![p].total_stockouts =
                                        @ + (demand - available)]
         IN  [s |-> [s2 EXCEPT ![p].total_emergency_transfers =
                                   @ + allocated],
              allocated |-> allocated]

\* Returns the objects after the call and the allocated quantity.
allocate_emergency_supply(s, p, demand) ==
    IF s[p].connected_par_skus = <<>>
    THEN [s |-> s, allocated |-> 0]
    ELSE LET available == get_current_level(s, p)
             s1 == set_inventory_level(s, p, available - demand)
             s2 == IF available >= demand
                   THEN s1
                   ELSE [s1 EXCEPT ![p].total_stockouts =
                                        @ + (demand - available)]
         IN  [s |-> [s2 EXCEPT ![p].total_emergency_transfers = @ + demand],
              allocated |-> demand]

\* Puts the new shipment in front of the list.
add_pending_shipment_front(s, i, delivery_event) ==
    [s EXCEPT ![i].pending_shipments = <<delivery_event>> \o @]

add_pending_shipment(s, i, delivery_event) ==
    [s EXCEPT ![i].pending_shipments = Append(@, delivery_event)]

get_pending_shipments(s, i, time) ==
    SumQuantity(SelectSeq(s[i].pending_shipments,
                          LAMBDA shipment : shipment.time <= time))

\* list.remove: drops the first element equal to x.
RECURSIVE RemoveFirst(_, _)
\* Removes every element equal to x.
RemoveAll(seq, x) == SelectSeq(seq, LAMBDA y : y # x)

RemoveFirst(seq, x) ==
    IF seq = <<>> THEN <<>>
    ELSE IF Head(seq) = x THEN Tail(seq)
    ELSE <<Head(seq)>> \o RemoveFirst(Tail(seq), x)

InSeq(x, seq) == \E k \in 1..Len(seq) : seq[k] = x

\* Applies a matching delivery and keeps its pending record.
SKU_process_delivery_event_keep(s, i, delivery_event) ==
    IF InSeq(delivery_event, s[i].pending_shipments)
    THEN set_inventory_level(s, i, get_current_level(s, i)
                                      + delivery_event.quantity)
    ELSE s

\* Applies the delivery without looking it up.
SKU_process_delivery_event_unchecked(s, i, delivery_event) ==
    LET s1 == [s EXCEPT ![i].pending_shipments =
                            RemoveFirst(@, delivery_event)]
    IN  set_inventory_level(s1, i, get_current_level(s1, i)
                                     + delivery_event.quantity)

SKU_process_delivery_event(s, i, delivery_event) ==
    IF InSeq(delivery_event, s[i].pending_shipments)
    THEN LET s1 == [s EXCEPT ![i].pending_shipments =
                                  RemoveFirst(@, delivery_event)]
         IN  set_inventory_level(s1, i, get_current_level(s1, i)
                                          + delivery_event.quantity)
    ELSE s

sufficient_inventory_strict(available_inventory, demand_amount) ==
    available_inventory > demand_amount

\* The test that selects normal fulfillment.
sufficient_inventory(available_inventory, demand_amount) ==
    available_inventory >= demand_amount

record_shortfall_amount_only(s, i, amount) ==
    [s EXCEPT ![i].stockout_amount = amount]

\* The stockout bookkeeping of the shortfall branch.
record_shortfall(s, i, amount) ==
    [s EXCEPT ![i].stockout_amount = amount,
              ![i].total_stockouts = @ + amount]

RECURSIVE SKU_process_demand_event(_, _, _)
SKU_process_demand_event(s, i, demand_event) ==
    LET available_inventory == get_current_level(s, i)
        demand_amount == demand_event.quantity
    IN  IF sufficient_inventory(available_inventory, demand_amount)
        THEN set_inventory_level(s, i, available_inventory - demand_amount)
        ELSE LET s1 == set_inventory_level(s, i, 0)
                 s2 == record_shortfall(s1, i, demand_amount
                                                 - available_inventory)
                 perpetual_sku == s2[i].connected_perpetual_sku
             IN  IF perpetual_sku = None
                 THEN s2
                 ELSE LET s3 == SKU_process_demand_event(s2, perpetual_sku,
                                                         demand_event)
                          r == allocate_emergency_supply(
                                   s3, perpetual_sku, s3[i].stockout_amount)
                      IN  IF r.allocated > 0
                          THEN [set_inventory_level(r.s, i, r.allocated)
                                   EXCEPT ![i].stockout_amount =
                                              Max(0, @ - r.allocated)]
                          ELSE r.s

calculate_inventory_gap_no_pending(s, i, time) ==
    Max(0, s[i].target_level - get_current_level(s, i))

calculate_inventory_gap(s, i, time) ==
    Max(0, s[i].target_level
             - (get_current_level(s, i) + get_pending_shipments(s, i, time)))

(***************************************************************************)
(* SimulationManager                                                       *)
(***************************************************************************)
\* Takes whatever SKU the PERPETUAL Location holds.
get_perpetual_sku_any_id(s, sku_id) ==
    LET held == {id \in TopologySkuIds : s["PERPETUAL"].skus[id] # None}
    IN  IF "PERPETUAL" \in manager_locations /\ held # {}
        THEN s["PERPETUAL"].skus[CHOOSE id \in held : TRUE]
        ELSE None

get_perpetual_sku(s, sku_id) ==
    IF "PERPETUAL" \in manager_locations
    THEN s["PERPETUAL"].skus[sku_id]
    ELSE None

get_par_skus_unfiltered(sku_id) == sku_registry[sku_id]

get_par_skus(sku_id) ==
    SelectSeq(sku_registry[sku_id], LAMBDA i : location_id[i] # "PERPETUAL")

RECURSIVE ConnectAll(_, _, _)
ConnectAll(s, perpetual_sku, par_skus) ==
    IF par_skus = <<>> THEN s
    ELSE ConnectAll(
             set_connected_perpetual_sku(
                 add_emergency_connection(s, perpetual_sku, Head(par_skus)),
                 Head(par_skus), perpetual_sku),
             perpetual_sku, Tail(par_skus))

RECURSIVE ConnectIds(_, _)
ConnectIds(s, ids) ==
    IF ids = {} THEN s
    ELSE LET sku_id == CHOOSE x \in ids : TRUE
             perpetual_sku == get_perpetual_sku(s, sku_id)
             par_skus == get_par_skus(sku_id)
         IN  ConnectIds(IF perpetual_sku # None /\ par_skus # <<>>
                        THEN ConnectAll(s, perpetual_sku, par_skus)
                        ELSE s,
                        ids \ {sku_id})

(***************************************************************************)
(* heapq on a list whose elements compare by time only (__lt__).           *)
(* Positions are 0-based as in the library; heap[p + 1] is position p.     *)
(***************************************************************************)
lt(a, b) == a.time < b.time

RECURSIVE siftdown_loop(_, _, _, _)
siftdown_loop(heap, startpos, pos, newitem) ==
    IF pos > startpos
    THEN LET parentpos == (pos - 1) \div 2
             parent == heap[parentpos + 1]
         IN  IF lt(newitem, parent)
             THEN siftdown_loop([heap EXCEPT ![pos + 1] = parent],
                                startpos, parentpos, newitem)
             ELSE [heap EXCEPT ![pos + 1] = newitem]
    ELSE [heap EXCEPT ![pos + 1] = newitem]

siftdown(heap, startpos, pos) ==
    siftdown_loop(heap, startpos, pos, heap[pos + 1])

RECURSIVE siftup_loop(_, _, _, _)
siftup_loop(heap, pos, childpos, newitem) ==
    IF childpos < Len(heap)
    THEN LET rightpos == childpos + 1
             c == IF rightpos < Len(heap)
                     /\ ~lt(heap[childpos + 1], heap[rightpos + 1])
                  THEN rightpos ELSE childpos
         IN  siftup_loop([heap EXCEPT ![pos + 1] = heap[c + 1]],
                         c, 2 * c + 1, newitem)
    ELSE [heap |-> [heap EXCEPT ![pos + 1] = newitem], pos |-> pos]

siftup(heap, pos) ==
    LET r == siftup_loop(heap, pos, 2 * pos + 1, heap[pos + 1])
    IN  siftdown(r.heap, pos, r.pos)

heappush(heap, item) == siftdown(Append(heap, item), 0, Len(heap))

heappop_last(heap) ==
    [item |-> heap[Len(heap)], heap |-> SubSeq(heap, 1, Len(heap) - 1)]

\* Reads the first element and leaves it in the queue.
heappop_peek(heap) == [item |-> heap[1], heap |-> heap]

heappop(heap) ==
    LET lastelt == heap[Len(heap)]
        rest == SubSeq(heap, 1, Len(heap) - 1)
    IN  IF rest # <<>>
        THEN [item |-> rest[1],
              heap |-> siftup([rest EXCEPT ![1] = lastelt], 0)]
        ELSE [item |-> lastelt, heap |-> <<>>]

(***************************************************************************)
(* Initial state: the objects and the engine right after construction.     *)
(***************************************************************************)
EngineInit ==
    /\ skus = [id \in SkuIds |-> None]
    /\ event_queue = <<>>
    /\ current_time = 0
    /\ simulation_stats = [total_demand |-> 0, total_stockouts |-> 0,
                           total_emergency_transfers |-> 0,
                           total_replenishment_orders |-> 0]
    /\ end_time = 0
    /\ pc = "setup"
    /\ last = [event |-> NoEvent, before |-> sku, time_before |-> 0,
               scheduled |-> <<>>]

\* The objects as created: SKUs with the given constructor arguments and
\* empty Locations.
NewObjects(instances, target, lead) ==
    [o \in instances \cup LocationIds |->
        IF o \in LocationIds THEN NewLocation
        ELSE NewSKU(target[o], lead[o])]

\* The example construction: both Locations added to the manager, the two
\* SKU objects registered and added to their Locations.
Init ==
    /\ \E target \in TargetLevels, lead \in LeadTimes :
           sku = Location_add_sku(
                     Location_add_sku(NewObjects(Instances, target, lead),
                                      "PERPETUAL", "perp"),
                     "ED", "par")
    /\ manager_locations = {"PERPETUAL", "ED"}
    /\ sku_registry = [id \in TopologySkuIds |->
                           IF id = "SKU_001" THEN <<"perp", "par">> ELSE <<>>]
    /\ wirings = 0
    /\ raised = FALSE
    /\ query = NoQuery
    /\ EngineInit

(***************************************************************************)
(* Setup steps of the driver script.                                       *)
(***************************************************************************)
SetInventoryLevel(i, level) ==
    /\ pc = "setup"
    /\ sku' = set_inventory_level(sku, i, level)
    /\ UNCHANGED <<skus, event_queue, current_time, simulation_stats,
                   end_time, pc, last>>
    /\ UNCHANGED manager_vars

AddSku(i) ==
    /\ pc = "setup"
    /\ skus' = [skus EXCEPT ![resource_id[i]] = i]
    /\ UNCHANGED <<sku, event_queue, current_time, simulation_stats,
                   end_time, pc, last>>
    /\ UNCHANGED manager_vars

\* The method has no raise statement: it always returns normally.
SetupEmergencyConnections ==
    /\ pc = "setup"
    /\ wirings < MaxWirings
    /\ sku' = ConnectIds(sku, {id \in TopologySkuIds :
                                  sku_registry[id] # <<>>})
    /\ wirings' = wirings + 1
    /\ raised' = FALSE
    /\ UNCHANGED <<skus, event_queue, current_time, simulation_stats,
                   end_time, pc, last>>
    /\ UNCHANGED <<manager_locations, sku_registry, query>>

ScheduleEvent(event) ==
    /\ pc = "setup"
    /\ Len(event_queue) < MaxSeeds
    /\ event_queue' = heappush(event_queue, event)
    /\ UNCHANGED <<sku, skus, current_time, simulation_stats, end_time, pc,
                   last>>
    /\ UNCHANGED manager_vars

RunSimulation(end) ==
    /\ pc = "setup"
    /\ pc' = "run"
    /\ end_time' = end
    /\ UNCHANGED <<sku, skus, event_queue, current_time, simulation_stats,
                   last>>
    /\ UNCHANGED manager_vars

(***************************************************************************)
(* One iteration of the while loop of run_simulation, by event kind.       *)
(***************************************************************************)
LoopCondition == current_time < end_time /\ event_queue # <<>>

ReplenishmentOrder(i, order_quantity, time) ==
    [kind |-> "Replenishment", sku_id |-> resource_id[i],
     quantity |-> order_quantity, time |-> time, meta |-> location_id[i]]

ProcessDemand ==
    /\ pc = "run"
    /\ LoopCondition
    /\ LET popped == heappop(event_queue)
           event == popped.item
       IN  /\ event.kind = "Demand"
           /\ current_time' = event.time
           /\ IF skus[event.sku_id] # None
              THEN LET i == skus[event.sku_id]
                       s1 == SKU_process_demand_event(sku, i, event)
                       inventory_gap ==
                           calculate_inventory_gap(s1, i, event.time)
                       order == ReplenishmentOrder(i, inventory_gap,
                                                   event.time)
                   IN  /\ sku' = s1
                       /\ simulation_stats' =
                              [simulation_stats EXCEPT
                                   !.total_demand = @ + event.quantity]
                       /\ IF inventory_gap > 0
                          THEN /\ event_queue' = heappush(popped.heap, order)
                               /\ last' = [event |-> event, before |-> sku,
                                           time_before |-> current_time,
                                           scheduled |-> <<order>>]
                          ELSE /\ event_queue' = popped.heap
                               /\ last' = [event |-> event, before |-> sku,
                                           time_before |-> current_time,
                                           scheduled |-> <<>>]
              ELSE /\ event_queue' = popped.heap
                   /\ last' = [event |-> event, before |-> sku,
                               time_before |-> current_time,
                               scheduled |-> <<>>]
                   /\ UNCHANGED <<sku, simulation_stats>>
    /\ UNCHANGED <<skus, end_time, pc>>
    /\ UNCHANGED manager_vars

ProcessDelivery ==
    /\ pc = "run"
    /\ LoopCondition
    /\ LET popped == heappop(event_queue)
           event == popped.item
       IN  /\ event.kind = "Delivery"
           /\ current_time' = event.time
           /\ event_queue' = popped.heap
           /\ sku' = IF skus[event.sku_id] # None
                     THEN SKU_process_delivery_event(
                              sku, skus[event.sku_id], event)
                     ELSE sku
           /\ last' = [event |-> event, before |-> sku,
                       time_before |-> current_time, scheduled |-> <<>>]
    /\ UNCHANGED <<skus, simulation_stats, end_time, pc>>
    /\ UNCHANGED manager_vars

ProcessReplenishment ==
    /\ pc = "run"
    /\ LoopCondition
    /\ LET popped == heappop(event_queue)
           event == popped.item
       IN  /\ event.kind = "Replenishment"
           /\ current_time' = event.time
           /\ IF skus[event.sku_id] # None
              THEN LET i == skus[event.sku_id]
                       delivery_event ==
                           [kind |-> "Delivery", sku_id |-> event.sku_id,
                            quantity |-> event.quantity,
                            time |-> event.time + sku[i].lead_time_weeks,
                            meta |-> "external_supplier"]
                   IN  /\ simulation_stats' =
                              [simulation_stats EXCEPT
                                   !.total_replenishment_orders = @ + 1]
                       /\ sku' = add_pending_shipment(sku, i, delivery_event)
                       /\ event_queue' =
                              heappush(popped.heap, delivery_event)
                       /\ last' = [event |-> event, before |-> sku,
                                   time_before |-> current_time,
                                   scheduled |-> <<delivery_event>>]
              ELSE /\ event_queue' = popped.heap
                   /\ last' = [event |-> event, before |-> sku,
                               time_before |-> current_time,
                               scheduled |-> <<>>]
                   /\ UNCHANGED <<sku, simulation_stats>>
    /\ UNCHANGED <<skus, end_time, pc>>
    /\ UNCHANGED manager_vars

FinishRun ==
    /\ pc = "run"
    /\ ~LoopCondition
    /\ pc' = "done"
    /\ UNCHANGED <<sku, skus, event_queue, current_time, simulation_stats,
                   end_time, last>>
    /\ UNCHANGED manager_vars

SetupStep ==
    \/ \E i \in Instances : \E level \in InitialLevels[i] :
           SetInventoryLevel(i, level)
    \/ \E i \in Instances : AddSku(i)
    \/ SetupEmergencyConnections
    \/ \E end \in EndTimes : RunSimulation(end)

LoopStep ==
    \/ ProcessDemand
    \/ ProcessDelivery
    \/ ProcessReplenishment
    \/ FinishRun

Next ==
    \/ SetupStep
    \/ \E event \in SeedEvents : ScheduleEvent(event)
    \/ LoopStep

Spec == Init /\ [][Next]_vars

(***************************************************************************)
(* Building the topology from scratch: Locations are added to the manager, *)
(* SKU objects are registered with the manager and added to the Location   *)
(* named by their location_id, levels are set, connections are wired.      *)
(* None of add_location, add_sku and Location.add_sku has a raise          *)
(* statement or a check for an existing entry.                             *)
(***************************************************************************)
TopologyTargets == [i \in TopologyInstances |-> 50]

TopologyLeadTimes == [i \in TopologyInstances |-> 1]

TopologyLevels == [par |-> {5}, other |-> {3}]

Registered(i) == InSeq(i, sku_registry[resource_id[i]])

NumRegistered == Cardinality({i \in TopologyInstances : Registered(i)})

InitTopology ==
    /\ sku = NewObjects(TopologyInstances, TopologyTargets,
                        TopologyLeadTimes)
    /\ manager_locations = {}
    /\ sku_registry = [id \in TopologySkuIds |-> <<>>]
    /\ wirings = 0
    /\ raised = FALSE
    /\ query = NoQuery
    /\ EngineInit

ManagerAddLocation(l) ==
    /\ l \notin manager_locations
    /\ manager_locations' = manager_locations \cup {l}
    /\ raised' = FALSE
    /\ UNCHANGED <<sku, sku_registry, wirings, query>>
    /\ UNCHANGED engine_vars

\* Each created object is handed to the manager once.
ManagerAddSku(i) ==
    /\ ~Registered(i)
    /\ NumRegistered < MaxRegistered
    /\ sku_registry' = [sku_registry EXCEPT
                            ![resource_id[i]] = Append(@, i)]
    /\ raised' = FALSE
    /\ UNCHANGED <<sku, manager_locations, wirings, query>>
    /\ UNCHANGED engine_vars

\* ... and then added to its Location, once.
LocationAddSku(i) ==
    /\ Registered(i)
    /\ sku[i].observers = <<>>
    /\ sku' = Location_add_sku(sku, location_id[i], i)
    /\ raised' = FALSE
    /\ UNCHANGED <<manager_locations, sku_registry, wirings, query>>
    /\ UNCHANGED engine_vars

NextTopology ==
    \/ \E l \in LocationIds : ManagerAddLocation(l)
    \/ \E i \in TopologyInstances : ManagerAddSku(i)
    \/ \E i \in TopologyInstances : LocationAddSku(i)
    \/ \E i \in DOMAIN TopologyLevels : \E level \in TopologyLevels[i] :
           SetInventoryLevel(i, level)
    \/ SetupEmergencyConnections

SpecTopology == InitTopology /\ [][NextTopology]_vars

\* Reporting on the Locations while SKU objects are registered, added to
\* their Locations, stocked and marked with a stockout.
LocationQuery(l, name) ==
    /\ query' = [location |-> l, name |-> name,
                 result |-> QueryResult(sku, l, name)]
    /\ UNCHANGED <<sku, manager_locations, sku_registry, wirings, raised>>
    /\ UNCHANGED engine_vars

RecordStockout(i, amount) ==
    /\ Registered(i)
    /\ sku[i].total_stockouts = 0
    /\ sku' = record_stockout(sku, i, amount)
    /\ UNCHANGED <<manager_locations, sku_registry, wirings, raised, query>>
    /\ UNCHANGED engine_vars

QueriedLocations == {"ED", "Surgery"}

StockoutAmounts == [par |-> {2}]

NextQueries ==
    \/ \E i \in TopologyInstances : ManagerAddSku(i)
    \/ \E i \in TopologyInstances : LocationAddSku(i)
    \/ \E i \in DOMAIN TopologyLevels : \E level \in TopologyLevels[i] :
           SetInventoryLevel(i, level)
    \/ \E i \in DOMAIN StockoutAmounts : \E amount \in StockoutAmounts[i] :
           RecordStockout(i, amount)
    \/ \E l \in QueriedLocations : \E name \in QueryNames :
           LocationQuery(l, name)

SpecQueries == InitTopology /\ [][NextQueries]_vars

\* The engine fed with demand events only.
NextDemandOnly ==
    \/ SetupStep
    \/ \E event \in DemandSeeds : ScheduleEvent(event)
    \/ LoopStep

SpecDemandOnly == Init /\ [][NextDemandOnly]_vars

\* The engine fed with quantities below zero.
InvalidSeeds ==
    [kind : {"Demand"}, sku_id : SkuIds, quantity : {-5}, time : {0, 1},
     meta : {"ED"}]
    \cup {e \in SeedEvents : e.kind = "Replenishment"}

NextInvalidQuantity ==
    \/ SetupStep
    \/ \E event \in InvalidSeeds : ScheduleEvent(event)
    \/ LoopStep

SpecInvalidQuantity == Init /\ [][NextInvalidQuantity]_vars

\* The engine fed with demands and replenishment orders: every delivery in
\* the queue comes from the handling of a replenishment order.
OrderSeeds == {e \in SeedEvents : e.kind # "Delivery"}

NextOrders ==
    \/ SetupStep
    \/ \E event \in OrderSeeds : ScheduleEvent(event)
    \/ LoopStep

SpecOrders == Init /\ [][NextOrders]_vars

\* The engine fed with a demand dated after the shortest horizon.
HorizonSeeds ==
    [kind : {"Demand"}, sku_id : SkuIds, quantity : {5}, time : {0, 2},
     meta : {"ED"}]

NextHorizon ==
    \/ SetupStep
    \/ \E event \in HorizonSeeds : ScheduleEvent(event)
    \/ LoopStep

SpecHorizon == Init /\ [][NextHorizon]_vars

\* The engine with two items: SKU_001 stocked in PERPETUAL and ED as in the
\* example, and SKU_002 stocked in ED only.
IdInstances == Instances \cup {"other"}

IdLevels == [par |-> {5}, perp |-> {75}, other |-> {3}]

IdSeeds ==
    [kind : {"Demand"}, sku_id : TopologySkuIds, quantity : {10},
     time : {0, 1}, meta : {"ED"}]

InitIds ==
    /\ sku = Location_add_sku(
                 Location_add_sku(
                     Location_add_sku(
                         NewObjects(IdInstances, TopologyTargets,
                                    TopologyLeadTimes),
                         "PERPETUAL", "perp"),
                     "ED", "par"),
                 "ED", "other")
    /\ manager_locations = {"PERPETUAL", "ED"}
    /\ sku_registry = [id \in TopologySkuIds |->
                           IF id = "SKU_001" THEN <<"perp", "par">>
                           ELSE <<"other">>]
    /\ wirings = 0
    /\ raised = FALSE
    /\ query = NoQuery
    /\ skus = [id \in TopologySkuIds |-> None]
    /\ event_queue = <<>>
    /\ current_time = 0
    /\ simulation_stats = [total_demand |-> 0, total_stockouts |-> 0,
                           total_emergency_transfers |-> 0,
                           total_replenishment_orders |-> 0]
    /\ end_time = 0
    /\ pc = "setup"
    /\ last = [event |-> NoEvent, before |-> sku, time_before |-> 0,
               scheduled |-> <<>>]

NextIds ==
    \/ \E i \in IdInstances : \E level \in IdLevels[i] :
           SetInventoryLevel(i, level)
    \/ \E i \in IdInstances : AddSku(i)
    \/ SetupEmergencyConnections
    \/ \E end \in EndTimes : RunSimulation(end)
    \/ \E event \in IdSeeds : ScheduleEvent(event)
    \/ LoopStep

SpecIds == InitIds /\ [][NextIds]_vars

\* The engine fed with one quantity per event kind, and run as the plain
\* loop run_simulation is: the loop exit is taken once the loop condition
\* fails, and an iteration is taken as long as it holds.
TerminationSeeds == {e \in SeedEvents : e.quantity = 5}

NextTermination ==
    \/ SetupStep
    \/ \E event \in TerminationSeeds : ScheduleEvent(event)
    \/ LoopStep

ProcessStep == ProcessDemand \/ ProcessDelivery \/ ProcessReplenishment

\* WF_vars(ProcessStep), with ENABLED <<ProcessStep>>_vars written out: the
\* popped event is of one of the three kinds and its handling changes the
\* queue.
LoopProgress ==
    \/ []<>(~(pc = "run" /\ LoopCondition))
    \/ []<><<ProcessStep>>_vars

SpecFair ==
    /\ Init
    /\ [][NextTermination]_vars
    /\ WF_vars(FinishRun)
    /\ LoopProgress

(***************************************************************************)
(* Properties.  `last' records the event handled by the latest loop        *)
(* iteration, the objects and the clock before it, and the follow-on       *)
(* events it scheduled.                                                    *)
(***************************************************************************)
ParInstances == {i \in Instances : location_id[i] # "PERPETUAL"}

\* The instance the engine resolves the last event's SKU id to.
Target == IF last.event.sku_id \in SkuIds THEN skus[last.event.sku_id]
          ELSE None

DemandHandled == last.event.kind = "Demand" /\ Target # None

\* A handled demand that fell short on a PAR SKU wired to its Perpetual SKU.
ShortOnWiredPar ==
    /\ DemandHandled
    /\ Target \in ParInstances
    /\ last.before[Target].connected_perpetual_sku # None
    /\ last.event.quantity > last.before[Target].current_inventory_level

Shortfall ==
    last.event.quantity - last.before[Target].current_inventory_level

Perpetual == last.before[Target].connected_perpetual_sku

\* C1: every PAR SKU has current_level >= 0 in every reachable state, for
\* any sequence of demand, replenishment and delivery events.
C1_ParLevelNonNegative ==
    \A i \in ParInstances : sku[i].current_inventory_level >= 0

\* A delivery of a negative quantity was applied to a PAR SKU.
C1_Witness ==
    /\ last.event.kind = "Delivery"
    /\ last.event.quantity < 0
    /\ Target \in ParInstances
    /\ Len(sku[Target].pending_shipments)
           < Len(last.before[Target].pending_shipments)
    /\ sku[Target].current_inventory_level = 0

\* C2: a Perpetual SKU holding L that is asked for an emergency quantity
\* q > L grants q and its level becomes the negative value L - q.
C2_PerpetualGoesNegative ==
    (ShortOnWiredPar
        /\ Shortfall > last.before[Perpetual].current_inventory_level)
    => sku[Perpetual].current_inventory_level
           = last.before[Perpetual].current_inventory_level - Shortfall

\* C3: across one demand event with PAR shortfall s and Perpetual level L,
\* the Perpetual SKU's total_stockouts grows by exactly s - L when s > L and
\* does not grow when L >= s.
C3_PerpetualStockoutCounter ==
    ShortOnWiredPar
    => LET L == last.before[Perpetual].current_inventory_level
       IN  sku[Perpetual].total_stockouts
               = last.before[Perpetual].total_stockouts
                     + (IF Shortfall > L THEN Shortfall - L ELSE 0)

\* C4: when the PAR shortfall s is at most the Perpetual level L, the
\* Perpetual level after the demand event is exactly L - s.
C4_PerpetualReducedByGrant ==
    (ShortOnWiredPar
        /\ last.before[Perpetual].current_inventory_level >= Shortfall)
    => sku[Perpetual].current_inventory_level
           = last.before[Perpetual].current_inventory_level - Shortfall

\* C5: after a demand event with shortfall s > 0 on a PAR SKU wired to a
\* Perpetual SKU, the PAR level is s and its stockout amount is 0, whatever
\* the Perpetual level was.
C5_ParReceivesShortfall ==
    ShortOnWiredPar
    => /\ sku[Target].current_inventory_level = Shortfall
       /\ sku[Target].stockout_amount = 0

\* The Perpetual SKU held less than the shortfall it granted.
C5_Witness ==
    /\ ShortOnWiredPar
    /\ last.before[Perpetual].current_inventory_level < Shortfall
    /\ sku[Target].current_inventory_level = Shortfall

\* C6: a demand d on a SKU whose level b is at least d leaves the level at
\* b - d, changes no stockout amount or counter, and asks no emergency supply
\* of the Perpetual SKU (every other object is left as it was).
C6_Conservation ==
    (DemandHandled
        /\ last.before[Target].current_inventory_level >= last.event.quantity)
    => /\ sku[Target].current_inventory_level
              = last.before[Target].current_inventory_level
                    - last.event.quantity
       /\ sku[Target].stockout_amount = last.before[Target].stockout_amount
       /\ sku[Target].total_stockouts = last.before[Target].total_stockouts
       /\ \A j \in Instances \ {Target} : sku[j] = last.before[j]

\* A wired PAR SKU served a demand equal to its whole level.
C6_Witness ==
    /\ DemandHandled
    /\ Target \in ParInstances
    /\ last.before[Target].connected_perpetual_sku # None
    /\ last.event.quantity > 0
    /\ last.before[Target].current_inventory_level = last.event.quantity
    /\ sku[Target].current_inventory_level = 0

\* The gap of §3, written out: max(0, target - (level + shipments due)).
GapAt(i, t) ==
    LET due == SelectSeq(sku[i].pending_shipments,
                         LAMBDA shipment : shipment.time <= t)
        position == sku[i].current_inventory_level + SumQuantity(due)
    IN  IF sku[i].target_level > position
        THEN sku[i].target_level - position ELSE 0

\* C7: after a demand event at time t, a replenishment event for the SKU at
\* time t is enqueued exactly when the inventory gap is positive, and it
\* orders the gap.
C7_ReplenishmentIffGap ==
    DemandHandled
    => LET t == last.event.time
           gap == GapAt(Target, t)
           order == ReplenishmentOrder(Target, gap, t)
       IN  IF gap > 0
           THEN last.scheduled = <<order>> /\ InSeq(order, event_queue)
           ELSE last.scheduled = <<>>

\* Scenario A: level 25, target 50, demand 10 leaves 15 and orders 35.
C7_Witness ==
    /\ DemandHandled
    /\ last.event.quantity = 10
    /\ last.before[Target].current_inventory_level = 25
    /\ sku[Target].target_level = 50
    /\ sku[Target].current_inventory_level = 15
    /\ last.scheduled = <<ReplenishmentOrder(Target, 35, last.event.time)>>

\* C8: fed with demand events only, a SKU with target_level 0 never has a
\* replenishment scheduled (no order or delivery queued, none pending), and
\* a demand above its level adds the shortfall to its total_stockouts.
C8_ZeroTargetNeverOrders ==
    \A id \in SkuIds :
        (skus[id] # None /\ sku[skus[id]].target_level = 0)
        => /\ \A k \in 1..Len(event_queue) :
                  event_queue[k].sku_id = id
                  => event_queue[k].kind = "Demand"
           /\ sku[skus[id]].pending_shipments = <<>>
           /\ simulation_stats.total_replenishment_orders = 0
           /\ (last.event.kind = "Demand" /\ last.event.sku_id = id)
              => /\ last.scheduled = <<>>
                 /\ LET b == last.before[skus[id]].current_inventory_level
                        d == last.event.quantity
                    IN  d > b
                        => sku[skus[id]].total_stockouts
                               = last.before[skus[id]].total_stockouts
                                     + (d - b)

\* A zero-target SKU ran short on a demand.
C8_Witness ==
    /\ DemandHandled
    /\ sku[Target].target_level = 0
    /\ last.event.quantity > last.before[Target].current_inventory_level
    /\ sku[Target].total_stockouts > last.before[Target].total_stockouts

\* C10: within a run the events are handled in non-decreasing time order;
\* the clock is the time of the latest event and never moves back.
C10_TimeOrder ==
    last.event.kind # None
    => /\ last.event.time >= last.time_before
       /\ current_time = last.event.time

\* A delivery scheduled during the run was handled at a later time while
\* other events were still queued.
C10_Witness ==
    /\ last.event.kind = "Delivery"
    /\ Target # None
    /\ last.event.time > last.time_before
    /\ Len(sku[Target].pending_shipments)
           < Len(last.before[Target].pending_shipments)
    /\ event_queue # <<>>

\* Precedence of the tie-break the specification prescribes.
Rank(kind) ==
    CASE kind = "Delivery" -> 0
      [] kind = "Demand" -> 1
      [] OTHER -> 2

\* C11: among queued events of equal time, deliveries are handled before
\* demands and demands before replenishments, whatever the scheduling
\* order: no event left in the queue at the time of the handled event has
\* a higher precedence (follow-on events of the handled event aside).
C11_TieBreakByKind ==
    last.event.kind # None
    => \A k \in 1..Len(event_queue) :
           (event_queue[k].time = last.event.time
               /\ Rank(event_queue[k].kind) < Rank(last.event.kind))
           => InSeq(event_queue[k], last.scheduled)

\* The registered PAR objects of one id, and the object the PERPETUAL
\* Location holds for it.
RegisteredPars(id) ==
    {i \in TopologyInstances :
        /\ resource_id[i] = id
        /\ location_id[i] # "PERPETUAL"
        /\ InSeq(i, sku_registry[id])}

PerpetualOf(id) == sku["PERPETUAL"].skus[id]

WiringStep == wirings' = wirings + 1

\* C12: wiring a topology in which a registered PAR id has no SKU of that id
\* in the Perpetual location raises an error and does not leave that PAR SKU
\* registered.
C12_UnmatchedParRaises ==
    [][\A id \in TopologySkuIds :
           (WiringStep /\ RegisteredPars(id) # {} /\ PerpetualOf(id) = None)
           => /\ raised'
              /\ \A i \in RegisteredPars(id) :
                     ~InSeq(i, sku_registry'[id])]_vars

Count(x, seq) == Cardinality({k \in 1..Len(seq) : seq[k] = x})

FullyWired ==
    \A id \in TopologySkuIds :
        ("PERPETUAL" \in manager_locations /\ PerpetualOf(id) # None)
        => \A i \in RegisteredPars(id) :
               /\ sku[i].connected_perpetual_sku = PerpetualOf(id)
               /\ InSeq(i, sku[PerpetualOf(id)].connected_par_skus)

\* C14: running the wiring step again on an already wired topology leaves
\* every back-reference and every connected-PAR list as it was and raises
\* no error.
C14_RewiringIdempotent ==
    [][(wirings >= 1 /\ WiringStep /\ FullyWired)
       => /\ ~raised'
          /\ \A i \in TopologyInstances :
                 /\ sku'[i].connected_perpetual_sku
                        = sku[i].connected_perpetual_sku
                 /\ sku'[i].connected_par_skus
                        = sku[i].connected_par_skus]_vars

\* C15: an id registered for a Location stays with the object registered
\* first: a later add_sku of the same id for that Location is refused, so
\* the Location's entry is never replaced and the registry never holds two
\* objects of one id for one Location.
C15_DuplicateRejected ==
    [][/\ \A l \in LocationIds : \A id \in TopologySkuIds :
              sku[l].skus[id] # None
              => sku'[l].skus[id] = sku[l].skus[id]
       /\ \A i, j \in TopologyInstances :
              (i # j /\ resource_id[i] = resource_id[j]
                  /\ location_id[i] = location_id[j])
              => ~(InSeq(i, sku_registry'[resource_id[i]])
                     /\ InSeq(j, sku_registry'[resource_id[j]]))]_vars

UnmatchedDelivery ==
    /\ last.event.kind = "Delivery"
    /\ Target # None
    /\ ~InSeq(last.event, last.before[Target].pending_shipments)

\* C16: a delivery that matches no pending shipment of its SKU changes no
\* object (level, pending shipments, counters), and the run goes on: it
\* ends only when the loop condition fails.
C16_UnmatchedDeliveryRejected ==
    UnmatchedDelivery
    => /\ sku = last.before
       /\ pc \in {"run", "done"}
       /\ pc = "done" => ~LoopCondition

\* An unmatched delivery was passed over and the loop has more to handle.
C16_Witness ==
    /\ UnmatchedDelivery
    /\ pc = "run"
    /\ LoopCondition
    /\ sku[Target].current_inventory_level > 0

\* C17: a demand or a replenishment order with a quantity below zero is
\* refused and changes no object; a negative demand never raises a level.
C17_NegativeQuantityRejected ==
    (last.event.kind \in {"Demand", "Replenishment"}
        /\ Target # None /\ last.event.quantity < 0)
    => sku = last.before

RECURSIVE SumRegistered(_, _)
SumRegistered(ids, field) ==
    IF ids = {} THEN 0
    ELSE LET id == CHOOSE x \in ids : TRUE
         IN  (IF field = "total_stockouts"
              THEN sku[skus[id]].total_stockouts
              ELSE sku[skus[id]].total_emergency_transfers)
                 + SumRegistered(ids \ {id}, field)

RECURSIVE SumTransfers(_)
SumTransfers(instances) ==
    IF instances = {} THEN 0
    ELSE LET i == CHOOSE x \in instances : TRUE
         IN  sku[i].total_emergency_transfers
                 + SumTransfers(instances \ {i})

\* C18: the engine's total_stockouts is the sum of the shortfalls recorded
\* by the demands handled so far (the counters of the SKUs the demands were
\* addressed to) and its total_emergency_transfers the sum of the granted
\* emergency quantities.
C18_StatsAccumulate ==
    pc # "setup"
    => /\ simulation_stats.total_stockouts
              = SumRegistered({id \in SkuIds : skus[id] # None},
                              "total_stockouts")
       /\ simulation_stats.total_emergency_transfers
              = SumTransfers(Instances)

RECURSIVE SumOwned(_, _)
SumOwned(s, owned) ==
    IF owned = {} THEN 0
    ELSE LET i == CHOOSE x \in owned : TRUE
         IN  s[i].current_inventory_level + SumOwned(s, owned \ {i})

Owned(s, l) ==
    {i \in TopologyInstances : \E id \in TopologySkuIds : s[l].skus[id] = i}

\* C19: a Location's current level is the sum of the levels of the SKUs it
\* owns, and whenever a step changes the level of a SKU, the level cached by
\* every Location observing that SKU equals that sum.
C19_LocationLevelIsSum ==
    [][/\ \A l \in LocationIds :
              Location_get_current_level(sku', l) = SumOwned(sku', Owned(sku', l))
       /\ \A i \in TopologyInstances :
              sku'[i].current_inventory_level # sku[i].current_inventory_level
              => \A l \in LocationIds :
                     InSeq(l, sku'[i].observers)
                     => sku'[l].current_level
                            = SumOwned(sku', Owned(sku', l))]_vars

\* ED owns two SKUs with levels 5 and 3 and caches 8.
C19_Witness ==
    /\ sku["ED"].skus["SKU_001"] = "par"
    /\ sku["ED"].skus["SKU_002"] = "other"
    /\ sku["par"].current_inventory_level = 5
    /\ sku["other"].current_inventory_level = 3
    /\ sku["ED"].current_level = 8

\* Work left in the queue: a demand can spawn a replenishment, which spawns
\* a delivery, which spawns nothing.
Variant ==
    LET n(kind) == Cardinality({k \in 1..Len(event_queue) :
                                    event_queue[k].kind = kind})
    IN  3 * n("Demand") + 2 * n("Replenishment") + n("Delivery")

\* What the handled event put into the queue.
SpawnBound ==
    /\ last.event.kind = "Demand"
           => /\ Len(last.scheduled) <= 1
              /\ \A k \in 1..Len(last.scheduled) :
                     last.scheduled[k].kind = "Replenishment"
    /\ (last.event.kind = "Replenishment" /\ Target # None)
           => /\ Len(last.scheduled) = 1
              /\ last.scheduled[1].kind = "Delivery"
    /\ last.event.kind = "Delivery" => last.scheduled = <<>>

\* C20: run_simulation terminates: a demand spawns at most one
\* replenishment, a replenishment (of a registered SKU) exactly one delivery
\* and a delivery nothing, so every loop iteration reduces the work left in
\* the queue, and a run that has started reaches its end.
C20_Terminates ==
    /\ []SpawnBound
    /\ [][(pc = "run" /\ pc' = "run") => Variant' < Variant]_vars
    /\ (pc = "run") ~> (pc = "done")

\* A run ended with an empty queue after a demand, its replenishment order
\* and the delivery were handled.
C20_Witness ==
    /\ pc = "done"
    /\ event_queue = <<>>
    /\ last.event.kind = "Delivery"
    /\ simulation_stats.total_replenishment_orders > 0
    /\ simulation_stats.total_demand > 0

\* The delivery a handled replenishment order of instance i gives rise to.
DeliveryOf(e, i) ==
    [kind |-> "Delivery", sku_id |-> e.sku_id, quantity |-> e.quantity,
     time |-> e.time + sku[i].lead_time_weeks, meta |-> "external_supplier"]

QueuedEvents(queue) == {queue[k] : k \in 1..Len(queue)}

\* C22: handling a replenishment order of quantity q at time t for a
\* registered SKU takes the order out of the queue and puts exactly one
\* delivery of quantity q at time t + lead_time_weeks into it, appends that
\* record to the SKU's pending shipments, adds one to
\* total_replenishment_orders and leaves the SKU's level as it was.
C22_ReplenishmentSchedulesDelivery ==
    [][(last' # last /\ last'.event.kind = "Replenishment"
           /\ skus[last'.event.sku_id] # None)
       => LET e == last'.event
              i == skus[e.sku_id]
              d == DeliveryOf(e, i)
          IN  /\ e.time = current_time'
              /\ \A x \in QueuedEvents(event_queue)
                            \cup QueuedEvents(event_queue') \cup {d} :
                     Count(x, event_queue')
                         = Count(x, event_queue)
                               - (IF x = e THEN 1 ELSE 0)
                               + (IF x = d THEN 1 ELSE 0)
              /\ sku'[i].pending_shipments
                     = Append(sku[i].pending_shipments, d)
              /\ simulation_stats'.total_replenishment_orders
                     = simulation_stats.total_replenishment_orders + 1
              /\ sku'[i].current_inventory_level
                     = sku[i].current_inventory_level]_vars

\* A second order was handled while the first one's delivery is pending.
C22_Witness ==
    /\ last.event.kind = "Replenishment"
    /\ Target # None
    /\ Len(sku[Target].pending_shipments) = 2
    /\ sku[Target].pending_shipments[2] = last.scheduled[1]
    /\ sku[Target].pending_shipments[1] # last.scheduled[1]

MatchedDelivery ==
    /\ last.event.kind = "Delivery"
    /\ Target # None
    /\ InSeq(last.event, last.before[Target].pending_shipments)

\* C23: handling a delivery that matches a pending shipment removes exactly
\* one matching pending record and raises the SKU's level by exactly the
\* delivered quantity.
C23_DeliveryAppliedOnce ==
    MatchedDelivery
    => /\ Len(sku[Target].pending_shipments)
              = Len(last.before[Target].pending_shipments) - 1
       /\ Count(last.event, sku[Target].pending_shipments)
              = Count(last.event, last.before[Target].pending_shipments) - 1
       /\ sku[Target].current_inventory_level
              = last.before[Target].current_inventory_level
                    + last.event.quantity

\* C25: run_simulation(end_time) handles no event dated after end_time.
C25_HorizonBound ==
    last.event.kind # None => last.event.time <= end_time

\* Level plus every pending shipment, whatever its arrival time.
InventoryPosition(i) ==
    sku[i].current_inventory_level + SumQuantity(sku[i].pending_shipments)

\* C26: a SKU whose level starts at or below its target and that has no
\* pending shipment at the start never has an inventory position above its
\* target.
C26_NoOverOrdering ==
    \A i \in Instances :
        (\A level \in InitialLevels[i] : level <= sku[i].target_level)
        => InventoryPosition(i) <= sku[i].target_level

\* C27: with deliveries produced by the handling of replenishment orders
\* only, the pending shipments of every SKU registered with the engine are,
\* as a multiset, the deliveries of its id in the event queue.
C27_PendingIsQueued ==
    \A id \in SkuIds :
        skus[id] # None
        => LET pending == sku[skus[id]].pending_shipments
           IN  \A x \in QueuedEvents(pending)
                         \cup {y \in QueuedEvents(event_queue) :
                                  y.kind = "Delivery" /\ y.sku_id = id} :
                   Count(x, pending) = Count(x, event_queue)

\* Two equal deliveries are queued and pending, and one more was applied.
C27_Witness ==
    /\ MatchedDelivery
    /\ Len(sku[Target].pending_shipments) = 2
    /\ sku[Target].pending_shipments[1] = sku[Target].pending_shipments[2]
    /\ Count(sku[Target].pending_shipments[1], event_queue) = 2

LatestSeedTime ==
    CHOOSE t \in {e.time : e \in SeedEvents} :
        \A e \in SeedEvents : e.time <= t

\* The horizon lies after every event that can arise for instance i.
HorizonCovers(i) == end_time > LatestSeedTime + sku[i].lead_time_weeks

\* C28: with a horizon after every event time, a replenishment order that
\* was handled (its shipment is pending) is followed by the handling of its
\* delivery (the shipment is no longer pending), and a run that ended with
\* an empty queue leaves no SKU with a pending shipment.
C28_ReplenishmentDelivered ==
    /\ []((pc = "done" /\ event_queue = <<>>)
              => \A i \in Instances : sku[i].pending_shipments = <<>>)
    /\ \A i \in Instances :
           (pc = "run" /\ HorizonCovers(i)
               /\ sku[i].pending_shipments # <<>>)
           ~> (sku[i].pending_shipments = <<>>)

\* A run over the long horizon ended with the delivery of an order.
C28_Witness ==
    /\ pc = "done"
    /\ event_queue = <<>>
    /\ MatchedDelivery
    /\ HorizonCovers(Target)
    /\ sku[Target].current_inventory_level
           > last.before[Target].current_inventory_level

\* C29: an instance registered with the engine stays addressable when
\* another instance of the same id is registered.
C29_InstancesStayAddressable ==
    [][\A i \in Instances :
           skus[resource_id[i]] = i => skus'[resource_id[i]] = i]_vars

\* C30: when the emergency supply for a PAR demand leaves the Perpetual SKU
\* below its target, a replenishment order for the Perpetual SKU is
\* scheduled.
C30_PerpetualReordered ==
    (ShortOnWiredPar
        /\ sku[Perpetual].current_inventory_level
               < last.before[Perpetual].current_inventory_level
        /\ sku[Perpetual].current_inventory_level
               < sku[Perpetual].target_level)
    => \E k \in 1..Len(last.scheduled) :
           /\ last.scheduled[k].kind = "Replenishment"
           /\ last.scheduled[k].meta = location_id[Perpetual]

\* C24: handling an event that carries SKU id X changes no field of any SKU
\* object whose id differs from X, in any Location.
C24_OtherIdsUntouched ==
    last.event.kind # None
    => \A i \in IdInstances :
           resource_id[i] # last.event.sku_id => sku[i] = last.before[i]

\* A demand for SKU_002 fell short in ED while SKU_001 is stocked in ED and,
\* wired, in PERPETUAL.
C24_Witness ==
    /\ last.event.kind = "Demand"
    /\ last.event.sku_id = "SKU_002"
    /\ skus["SKU_002"] = "other"
    /\ sku["other"].total_stockouts > 0
    /\ sku["par"].connected_perpetual_sku = "perp"
    /\ sku["perp"].current_inventory_level > 0
    /\ sku["par"].current_inventory_level > 0

\* C21: a reporting call on a Location changes no SKU and no Location (nor
\* the manager's registry), never fails, and on a Location without SKUs
\* returns zero or an empty dict.
C21_QueriesArePure ==
    [][query' # query
       => /\ sku' = sku
          /\ sku_registry' = sku_registry
          /\ manager_locations' = manager_locations
          /\ ~query'.result.error
          /\ (\A id \in TopologySkuIds :
                  sku[query'.location].skus[id] = None)
             => /\ query'.result.dict = <<>>
                /\ query'.result.num = 0]_vars

\* The stockout rate of ED was asked for while one of its two SKUs was
\* short.
C21_Witness ==
    /\ query.location = "ED"
    /\ query.name = "get_stockout_rate"
    /\ query.result.num = 100
    /\ query.result.den = 2
    /\ sku["ED"].current_level = 8

====
